---- MODULE Spec2Model ----
(***************************************************************************)
(* Model of the CQRS mediator (src/src/types.ts): the Result wrapper, the  *)
(* two handler registries of Mediator and its dispatch operation, together *)
(* with the handlers and requests used by the tests and the example.       *)
(*                                                                         *)
(* JavaScript values are tagged records: every value has a "type" field,   *)
(* so that undefined, strings, objects and Error objects stay comparable.  *)
(***************************************************************************)
EXTENDS Integers, Sequences, FiniteSets, TLC

\* ------------------------------------------------------------------ bounds
MaxOps == 3       \* method calls made on one Result by its holder

\* ------------------------------------------------------- JavaScript values
Undefined == [type |-> "undefined"]

Str(s) == [type |-> "string", s |-> s]

\* an Error object; `site` is the `new Error` expression that allocated it,
\* which stands for the identity of the object
Error(message, site) == [type |-> "Error", message |-> message, site |-> site]

\* the User object of the tests (tests/mediator.test.ts:42)
TestUser == [type |-> "object", id |-> "123", name |-> "Test User",
             email |-> "john@example.com"]

\* JavaScript truthiness, as used by `if (this.error)` and `if (!handler)`
Truthy(v) ==
    CASE v.type = "undefined" -> FALSE
      [] v.type = "string" -> v.s # ""
      [] OTHER -> TRUE

\* how a call ends: it returns a value or throws (rejects with) one
Return(v) == [kind |-> "return", value |-> v]

Throw(e) == [kind |-> "throw", value |-> e]

\* not ended yet
Pending == [kind |-> "pending", value |-> Undefined]

Bool(b) == [type |-> "boolean", b |-> b]

\* the TypeError of reading a property of undefined / calling a non-function
TypeError(site) == Error("TypeError", site)

\* ------------------------------------------------------------------ Result
NewResult(value, error) == [value |-> value, error |-> error]

success(value) == NewResult(value, Undefined)

failure(error) == NewResult(Undefined, error)

\* isSuccess deciding by the value held instead of the error
isSuccessByValue(r) == r.value # Undefined

isSuccess(r) == r.error = Undefined

getValue(r) == r.value

\* unwrap throwing whenever no value is held
unwrapByValue(r) == IF ~Truthy(r.value) THEN Throw(r.error) ELSE Return(r.value)

unwrap(r) == IF Truthy(r.error) THEN Throw(r.error) ELSE Return(r.value)

\* the transforms handed to map by the tests and the example, and two
\* transforms that are total on undefined
Transforms == {"name", "email", "toUpperCase", "typeof", "void"}

ToUpperCase(s) ==
    CASE s = "john@example.com" -> "JOHN@EXAMPLE.COM"
      [] s = "Test User" -> "TEST USER"
      [] s = "123" -> "123"
      [] s = "undefined" -> "UNDEFINED"
      [] s = "string" -> "STRING"
      [] s = "object" -> "OBJECT"
      [] OTHER -> s

\* fn(val): the completion of calling transform fn on val
CallFn(fn, val) ==
    CASE fn = "name" ->
           IF val.type = "undefined" THEN Throw(TypeError("fn"))
           ELSE IF val.type = "object" THEN Return(Str(val.name))
           ELSE Return(Undefined)
      [] fn = "email" ->
           IF val.type = "undefined" THEN Throw(TypeError("fn"))
           ELSE IF val.type = "object" THEN Return(Str(val.email))
           ELSE Return(Undefined)
      [] fn = "toUpperCase" ->
           IF val.type = "string" THEN Return(Str(ToUpperCase(val.s)))
           ELSE Throw(TypeError("fn"))
      [] fn = "typeof" -> Return(Str(val.type))
      [] fn = "void" -> Return(Undefined)

\* map calling fn before it looks at the outcome
mapEager(r, fn) ==
    LET c == CallFn(fn, r.value)
    IN [completion |-> IF c.kind = "throw" THEN c
                       ELSE IF isSuccess(r) THEN Return(success(c.value))
                       ELSE Return(failure(r.error)),
        invoked |-> <<[fn |-> fn, arg |-> r.value]>>]

\* map taking an outcome without a value for a Failure
mapByValue(r, fn) ==
    IF r.value # Undefined
    THEN LET c == CallFn(fn, r.value)
         IN [completion |-> IF c.kind = "throw" THEN c
                            ELSE Return(success(c.value)),
             invoked |-> <<[fn |-> fn, arg |-> r.value]>>]
    ELSE [completion |-> Return(failure(r.error)), invoked |-> <<>>]

\* r.map(fn): the completion of the call and the invocations of fn it made
map(r, fn) ==
    IF isSuccess(r)
    THEN LET c == CallFn(fn, r.value)
         IN [completion |-> IF c.kind = "throw" THEN c
                            ELSE Return(success(c.value)),
             invoked |-> <<[fn |-> fn, arg |-> r.value]>>]
    ELSE [completion |-> Return(failure(r.error)), invoked |-> <<>>]

\* ------------------------------------------------ Map<string, handler>
\* a JavaScript Map as the set of its entries [key, value]
MapHas(m, k) == \E e \in m : e.key = k

MapGet(m, k) ==
    IF MapHas(m, k) THEN (CHOOSE e \in m : e.key = k).value ELSE Undefined

\* set adding an entry without looking for the key
MapSetAppend(m, k, v) == m \cup {[key |-> k, value |-> v]}

MapSet(m, k, v) == {e \in m : e.key # k} \cup {[key |-> k, value |-> v]}

\* ---------------------------------------------------- requests, handlers
\* class names of the request classes (Function.name of the constructor)
TypeNames == {"CreateUserCommand", "GetUserQuery"}

Payloads == {[type |-> "object", email |-> "a@b.com"],
             [type |-> "object", email |-> "invalid-email"]}

Params == {[type |-> "object", userId |-> "123"],
           [type |-> "object", userId |-> "404"]}

\* new XCommand(payload), for a class named ctor that extends BaseCommand
BaseCommand(ctor, payload) ==
    [kind |-> "command", ctor |-> ctor, payload |-> payload,
     params |-> Undefined]

\* new XQuery(params), for a class named ctor that extends BaseQuery
BaseQuery(ctor, params) ==
    [kind |-> "query", ctor |-> ctor, payload |-> Undefined,
     params |-> params]

\* a request whose kind is neither 'command' nor 'query'; the object literal
\* { kind: 'invalid', ... } of tests/mediator.test.ts:190 has ctor "Object"
InvalidMessage(ctor) ==
    [kind |-> "invalid", ctor |-> ctor, payload |-> Undefined,
     params |-> Undefined]

\* In a message, `kind` is what evaluating message.kind yields and `ctor`
\* what evaluating message.constructor.name yields; Throws stands for an
\* evaluation that throws a TypeError instead of yielding a value.
Throws == "<throws TypeError>"

\* dispatch(null): reading null.kind throws
NullMessage ==
    [kind |-> Throws, ctor |-> Throws, payload |-> Undefined,
     params |-> Undefined]

\* an object without a prototype, Object.assign(Object.create(null),
\* { kind: 'command' }): its constructor is undefined, reading .name throws
BareCommand ==
    [kind |-> "command", ctor |-> Throws, payload |-> Undefined,
     params |-> Undefined]

Messages ==
    {BaseCommand(t, p) : t \in TypeNames, p \in Payloads}
      \cup {BaseQuery(t, q) : t \in TypeNames, q \in Params}
      \cup {InvalidMessage(t) : t \in {"Object", "GetUserQuery"}}
      \cup {NullMessage, BareCommand}

HandlerObject(class) == [type |-> "object", class |-> class]

Handlers == {HandlerObject("CreateUserHandler"),
             HandlerObject("GetUserHandler")}

Includes(s, ch) == ch = "@" /\ s = "a@b.com"

\* handler.handle(message): how the promise it returns settles
handle(handler, message) ==
    CASE handler.class = "CreateUserHandler" ->
           \* try { ... } catch (error) { return Result.failure(error) }
           IF message.payload.type = "undefined"
           THEN Return(failure(TypeError("handle")))
           ELSE IF ~Includes(message.payload.email, "@")
           THEN Return(failure(Error("Invalid email format", "handle")))
           ELSE Return(success(Undefined))
      [] handler.class = "GetUserHandler" ->
           IF message.params.type = "undefined"
           THEN Throw(TypeError("handle"))
           ELSE IF message.params.userId = "123"
           THEN Return(success(TestUser))
           ELSE Return(failure(Error("User not found", "handle")))

\* ---------------------------------------------------------------- Mediator
\* the message without the separating space
NoHandlerForCommandNoSpace(name) == "No handler for command:" \o name

NoHandlerForCommand(name) == "No handler for command: " \o name

\* the message of the command branch copied to the query branch
NoHandlerForQueryCopied(name) == "No handler for command: " \o name

NoHandlerForQuery(name) == "No handler for query: " \o name

InvalidMessageType == "Invalid message type: neither Command nor Query"

\* dispatch whose query branch reads the command registry
dispatchQueryFromCommands(cmdHandlers, qryHandlers, message) ==
    IF message.kind = Throws
    THEN [handler |-> Undefined, outcome |-> Throw(TypeError("dispatch"))]
    ELSE IF message.kind \in {"command", "query"} /\ message.ctor = Throws
    THEN [handler |-> Undefined, outcome |-> Throw(TypeError("dispatch"))]
    ELSE IF message.kind = "command"
    THEN LET handler == MapGet(cmdHandlers, message.ctor)
         IN IF ~Truthy(handler)
            THEN [handler |-> Undefined,
                  outcome |-> Return(failure(
                      Error(NoHandlerForCommand(message.ctor), "dispatch")))]
            ELSE [handler |-> handler, outcome |-> Pending]
    ELSE IF message.kind = "query"
    THEN LET handler == MapGet(cmdHandlers, message.ctor)
         IN IF ~Truthy(handler)
            THEN [handler |-> Undefined,
                  outcome |-> Return(failure(
                      Error(NoHandlerForQuery(message.ctor), "dispatch")))]
            ELSE [handler |-> handler, outcome |-> Pending]
    ELSE [handler |-> Undefined,
          outcome |-> Return(failure(Error(InvalidMessageType, "dispatch")))]

\* dispatch taking everything that is not a command for a query
dispatchElseQuery(cmdHandlers, qryHandlers, message) ==
    IF message.kind = Throws
    THEN [handler |-> Undefined, outcome |-> Throw(TypeError("dispatch"))]
    ELSE IF message.kind \in {"command", "query"} /\ message.ctor = Throws
    THEN [handler |-> Undefined, outcome |-> Throw(TypeError("dispatch"))]
    ELSE IF message.kind = "command"
    THEN LET handler == MapGet(cmdHandlers, message.ctor)
         IN IF ~Truthy(handler)
            THEN [handler |-> Undefined,
                  outcome |-> Return(failure(
                      Error(NoHandlerForCommand(message.ctor), "dispatch")))]
            ELSE [handler |-> handler, outcome |-> Pending]
    ELSE LET handler == MapGet(qryHandlers, message.ctor)
         IN IF ~Truthy(handler)
            THEN [handler |-> Undefined,
                  outcome |-> Return(failure(
                      Error(NoHandlerForQuery(message.ctor), "dispatch")))]
            ELSE [handler |-> handler, outcome |-> Pending]

\* the body of dispatch up to the handler invocation: the handler it
\* invokes (Undefined when none) and, when it invokes none, what it returns
dispatch(cmdHandlers, qryHandlers, message) ==
    IF message.kind = Throws
    THEN [handler |-> Undefined, outcome |-> Throw(TypeError("dispatch"))]
    ELSE IF message.kind \in {"command", "query"} /\ message.ctor = Throws
    THEN [handler |-> Undefined, outcome |-> Throw(TypeError("dispatch"))]
    ELSE IF message.kind = "command"
    THEN LET handler == MapGet(cmdHandlers, message.ctor)
         IN IF ~Truthy(handler)
            THEN [handler |-> Undefined,
                  outcome |-> Return(failure(
                      Error(NoHandlerForCommand(message.ctor), "dispatch")))]
            ELSE [handler |-> handler, outcome |-> Pending]
    ELSE IF message.kind = "query"
    THEN LET handler == MapGet(qryHandlers, message.ctor)
         IN IF ~Truthy(handler)
            THEN [handler |-> Undefined,
                  outcome |-> Return(failure(
                      Error(NoHandlerForQuery(message.ctor), "dispatch")))]
            ELSE [handler |-> handler, outcome |-> Pending]
    ELSE [handler |-> Undefined,
          outcome |-> Return(failure(Error(InvalidMessageType, "dispatch")))]

\* the tasks that call dispatch; each awaits its call before the next one
Callers == {"a", "b"}

VARIABLES
    commandHandlers,   \* Mediator.commandHandlers
    queryHandlers,     \* Mediator.queryHandlers
    calls,             \* per caller, its latest dispatch call
    lastRegistered     \* per registry and name, the handler of the last
                       \* register call (Undefined if none)

mvars == <<commandHandlers, queryHandlers, calls, lastRegistered>>

\* the holder of one Result instance
VARIABLES
    res,        \* the Result instance currently held
    origin,     \* the static factory call that built the first instance
    applied,    \* the transforms of the map calls that returned, in order
    fnCalls,    \* every invocation of a transform made by map
    last,       \* the last method call: its receiver and how it ended
    nOps        \* number of method calls made

rvars == <<res, origin, applied, fnCalls, last, nOps>>

vars == <<commandHandlers, queryHandlers, calls, lastRegistered,
          res, origin, applied, fnCalls, last, nOps>>

\* the handlers that have an entry under name k in registry m
EntriesFor(m, k) == {e.value : e \in {x \in m : x.key = k}}

Registry(kind) ==
    IF kind = "command" THEN commandHandlers
    ELSE IF kind = "query" THEN queryHandlers
    ELSE {}

\* the handler of the last register call for the registry and name that a
\* message of this kind and name is looked up in
LastRegisteredFor(message) ==
    IF message.kind \in {"command", "query"} /\ message.ctor \in TypeNames
    THEN lastRegistered[message.kind][message.ctor]
    ELSE Undefined

\* a caller that has not called dispatch yet
Idle == [state |-> "idle"]

MediatorInit ==
    /\ commandHandlers = {}
    /\ queryHandlers = {}
    /\ calls = [c \in Callers |-> Idle]
    /\ lastRegistered = [k \in {"command", "query"} |->
                            [t \in TypeNames |-> Undefined]]

registerCommandHandler(commandType, handler) ==
    /\ commandHandlers' = MapSet(commandHandlers, commandType, handler)
    /\ lastRegistered' =
           [lastRegistered EXCEPT !["command"][commandType] = handler]
    /\ UNCHANGED <<queryHandlers, calls, rvars>>

\* registerQueryHandler on a Mediator whose two registries are one Map
registerQueryHandlerShared(queryType, handler) ==
    /\ queryHandlers' = MapSet(queryHandlers, queryType, handler)
    /\ commandHandlers' = MapSet(commandHandlers, queryType, handler)
    /\ lastRegistered' =
           [lastRegistered EXCEPT !["query"][queryType] = handler]
    /\ UNCHANGED <<calls, rvars>>

registerQueryHandler(queryType, handler) ==
    /\ queryHandlers' = MapSet(queryHandlers, queryType, handler)
    /\ lastRegistered' =
           [lastRegistered EXCEPT !["query"][queryType] = handler]
    /\ UNCHANGED <<commandHandlers, calls, rvars>>

\* dispatch that deletes the registry entry it has looked up
DispatchConsuming(c, message) ==
    /\ calls[c].state \in {"idle", "resolved", "rejected"}
    /\ LET d == dispatch(commandHandlers, queryHandlers, message)
       IN calls' = [calls EXCEPT ![c] =
             [message |-> message,
              handler |-> d.handler,
              invoked |-> IF d.handler # Undefined THEN <<d.handler>>
                          ELSE <<>>,
              entries |-> EntriesFor(Registry(message.kind), message.ctor),
              latest |-> LastRegisteredFor(message),
              state |-> IF d.handler # Undefined THEN "pending"
                        ELSE IF d.outcome.kind = "throw" THEN "rejected"
                        ELSE "resolved",
              produced |-> Pending,
              settled |-> d.outcome]]
    /\ commandHandlers' = IF message.kind = "command"
                          THEN {e \in commandHandlers : e.key # message.ctor}
                          ELSE commandHandlers
    /\ queryHandlers' = IF message.kind = "query"
                        THEN {e \in queryHandlers : e.key # message.ctor}
                        ELSE queryHandlers
    /\ UNCHANGED <<lastRegistered, rvars>>

\* dispatch queueing behind the calls still in flight
DispatchSerialized(c, message) ==
    /\ calls[c].state \in {"idle", "resolved", "rejected"}
    /\ \A o \in Callers : calls[o].state \notin {"pending", "handled"}
    /\ LET d == dispatch(commandHandlers, queryHandlers, message)
       IN calls' = [calls EXCEPT ![c] =
             [message |-> message,
              handler |-> d.handler,
              invoked |-> IF d.handler # Undefined THEN <<d.handler>>
                          ELSE <<>>,
              entries |-> EntriesFor(Registry(message.kind), message.ctor),
              latest |-> LastRegisteredFor(message),
              state |-> IF d.handler # Undefined THEN "pending"
                        ELSE IF d.outcome.kind = "throw" THEN "rejected"
                        ELSE "resolved",
              produced |-> Pending,
              settled |-> d.outcome]]
    /\ UNCHANGED <<commandHandlers, queryHandlers, lastRegistered, rvars>>

\* caller c calls mediator.dispatch(message): the body runs up to its return
Dispatch(c, message) ==
    /\ calls[c].state \in {"idle", "resolved", "rejected"}
    /\ LET d == dispatch(commandHandlers, queryHandlers, message)
       IN calls' = [calls EXCEPT ![c] =
             [message |-> message,
              handler |-> d.handler,
              invoked |-> IF d.handler # Undefined THEN <<d.handler>>
                          ELSE <<>>,
              entries |-> EntriesFor(Registry(message.kind), message.ctor),
              latest |-> LastRegisteredFor(message),
              state |-> IF d.handler # Undefined THEN "pending"
                        ELSE IF d.outcome.kind = "throw" THEN "rejected"
                        ELSE "resolved",
              produced |-> Pending,
              settled |-> d.outcome]]
    /\ UNCHANGED <<commandHandlers, queryHandlers, lastRegistered, rvars>>

\* the handler looked up again in the registry when the promise settles
HandlerSettlesLateBound(c) ==
    /\ calls[c].state = "pending"
    /\ calls' = [calls EXCEPT
                   ![c].state = "handled",
                   ![c].produced =
                       handle(MapGet(Registry(calls[c].message.kind),
                                     calls[c].message.ctor),
                              calls[c].message)]
    /\ UNCHANGED <<commandHandlers, queryHandlers, lastRegistered, rvars>>

\* the promise returned by the handler.handle call of c's dispatch settles
HandlerSettles(c) ==
    /\ calls[c].state = "pending"
    /\ calls' = [calls EXCEPT ![c].state = "handled",
                              ![c].produced = handle(calls[c].handler,
                                                     calls[c].message)]
    /\ UNCHANGED <<commandHandlers, queryHandlers, lastRegistered, rvars>>

\* dispatch wrapping a handler's Failure in an Error of its own
DispatchSettlesWrapping(c) ==
    /\ calls[c].state = "handled"
    /\ calls' = [calls EXCEPT
                   ![c].state = IF calls[c].produced.kind = "return"
                                THEN "resolved" ELSE "rejected",
                   ![c].settled =
                       IF calls[c].produced.kind = "return"
                            /\ ~isSuccess(calls[c].produced.value)
                       THEN Return(failure(Error(
                                calls[c].produced.value.error.message,
                                "dispatch")))
                       ELSE calls[c].produced]
    /\ UNCHANGED <<commandHandlers, queryHandlers, lastRegistered, rvars>>

\* dispatch catching what the handler throws and returning it as a Failure
DispatchSettlesCatching(c) ==
    /\ calls[c].state = "handled"
    /\ calls' = [calls EXCEPT
                   ![c].state = "resolved",
                   ![c].settled =
                       IF calls[c].produced.kind = "throw"
                       THEN Return(failure(calls[c].produced.value))
                       ELSE calls[c].produced]
    /\ UNCHANGED <<commandHandlers, queryHandlers, lastRegistered, rvars>>

\* dispatch giving up on a handler that has not settled yet
DispatchSettlesTimeout(c) ==
    /\ calls[c].state \in {"pending", "handled"}
    /\ calls' = [calls EXCEPT
                   ![c].state = IF calls[c].produced.kind = "return"
                                THEN "resolved" ELSE "rejected",
                   ![c].settled =
                       IF calls[c].state = "pending"
                       THEN Throw(Error("Timeout", "dispatch"))
                       ELSE calls[c].produced]
    /\ UNCHANGED <<commandHandlers, queryHandlers, lastRegistered, rvars>>

\* the promise returned by c's dispatch adopts the handler's promise
DispatchSettles(c) ==
    /\ calls[c].state = "handled"
    /\ calls' = [calls EXCEPT
                   ![c].state = IF calls[c].produced.kind = "return"
                                THEN "resolved" ELSE "rejected",
                   ![c].settled = calls[c].produced]
    /\ UNCHANGED <<commandHandlers, queryHandlers, lastRegistered, rvars>>

\* ------------------------------------------------- a holder of one Result
\* the values and Error objects handed to Result.success / Result.failure
Values == {Undefined, TestUser, Str("john@example.com"), Str("Test User")}

Errors == {Error("Fail", "test"), Error("User not found", "handle"),
           Error("Handler boom", "handle")}

\* Result.success(value) or Result.failure(error) has just been called
ResultInit ==
    /\ \/ \E v \in Values :
             /\ res = success(v)
             /\ origin = [built |-> "success", arg |-> v]
       \/ \E e \in Errors :
             /\ res = failure(e)
             /\ origin = [built |-> "failure", arg |-> e]
    /\ applied = <<>>
    /\ fnCalls = <<>>
    /\ last = Undefined
    /\ nOps = 0

\* no Result is held
ResultIdle ==
    /\ res = Undefined
    /\ origin = Undefined
    /\ applied = <<>>
    /\ fnCalls = <<>>
    /\ last = Undefined
    /\ nOps = 0

MethodCall(op, arg, completion) ==
    [op |-> op, arg |-> arg, receiver |-> res, after |-> applied,
     completion |-> completion]

\* res = res.map(fn)
CallMap(fn) ==
    /\ nOps < MaxOps
    /\ LET m == map(res, fn)
       IN /\ fnCalls' = fnCalls \o m.invoked
          /\ last' = MethodCall("map", Str(fn), m.completion)
          /\ IF m.completion.kind = "return"
             THEN res' = m.completion.value /\ applied' = Append(applied, fn)
             ELSE UNCHANGED <<res, applied>>
    /\ nOps' = nOps + 1
    /\ UNCHANGED <<origin, mvars>>

\* res.unwrap()
CallUnwrap ==
    /\ nOps < MaxOps
    /\ last' = MethodCall("unwrap", Undefined, unwrap(res))
    /\ nOps' = nOps + 1
    /\ UNCHANGED <<res, origin, applied, fnCalls, mvars>>

\* res.isSuccess()
CallIsSuccess ==
    /\ nOps < MaxOps
    /\ last' = MethodCall("isSuccess", Undefined, Return(Bool(isSuccess(res))))
    /\ nOps' = nOps + 1
    /\ UNCHANGED <<res, origin, applied, fnCalls, mvars>>

\* res.getValue()
CallGetValue ==
    /\ nOps < MaxOps
    /\ last' = MethodCall("getValue", Undefined, Return(getValue(res)))
    /\ nOps' = nOps + 1
    /\ UNCHANGED <<res, origin, applied, fnCalls, mvars>>

\* ---------------------------------------------------------- specifications
Init == MediatorInit /\ ResultIdle

Next ==
    \/ \E t \in TypeNames, h \in Handlers : registerCommandHandler(t, h)
    \/ \E t \in TypeNames, h \in Handlers : registerQueryHandler(t, h)
    \/ \E c \in Callers, m \in Messages : Dispatch(c, m)
    \/ \E c \in Callers : HandlerSettles(c)
    \/ \E c \in Callers : DispatchSettles(c)

\* a Mediator, its registrations and its dispatch calls
Spec == Init /\ [][Next]_vars

\* the same, with the guarantee of the runtime that a promise whose
\* resolution was handed another, settled promise does settle (the job
\* queue runs); nothing makes a handler's own work complete
FairSpec ==
    Init /\ [][Next]_vars /\ \A c \in Callers : WF_vars(DispatchSettles(c))

ResultSpecInit == MediatorInit /\ ResultInit

ResultNext ==
    \/ \E fn \in Transforms : CallMap(fn)
    \/ CallUnwrap
    \/ CallIsSuccess
    \/ CallGetValue

\* one Result built by a static factory and the method calls made on it
ResultSpec == ResultSpecInit /\ [][ResultNext]_vars

\* ------------------------------------------------------------------ claims
\* the dispatch calls made, one per caller that has called
Called == {c \in Callers : calls[c].state # "idle"}

Settled(call) == call.state \in {"resolved", "rejected"}

\* C1: when the last registerCommandHandler call for T before a dispatch was
\* (T, H), the dispatch of a command named T invokes H, and once H.handle has
\* produced an outcome the dispatch resolves to exactly that outcome: the same
\* Success, or the Failure with the same error object.
C1_CommandOutcome ==
    \A c \in Called :
        LET call == calls[c]
            H == call.latest
        IN (call.message.kind = "command" /\ H # Undefined) =>
              /\ call.handler = H
              /\ call.invoked = <<H>>
              /\ call.state \notin {"pending"} =>
                    call.produced = handle(H, call.message)
              /\ (Settled(call) /\ call.produced.kind = "return") =>
                    /\ call.state = "resolved"
                    /\ call.settled = Return(call.produced.value)

\* a command was dispatched to CreateUserHandler, the handler registered
\* last for its name, and resolved to the failure that handler produced
C1_Witness ==
    \E c \in Called :
        /\ calls[c].message.kind = "command"
        /\ calls[c].state = "resolved"
        /\ calls[c].latest = HandlerObject("CreateUserHandler")
        /\ calls[c].settled
              = Return(failure(Error("Invalid email format", "handle")))

\* C2: when the query registry holds H under T at the time of a dispatch of a
\* query named T, the dispatch invokes H and resolves to exactly the outcome
\* H.handle produced: the value H returned, or H's error object.
C2_QueryOutcome ==
    \A c \in Called :
        LET call == calls[c]
        IN \A H \in Handlers :
              (call.message.kind = "query" /\ call.entries = {H}) =>
                 /\ call.handler = H
                 /\ call.invoked = <<H>>
                 /\ call.state # "pending" =>
                       call.produced = handle(H, call.message)
                 /\ (Settled(call) /\ call.produced.kind = "return") =>
                       /\ call.state = "resolved"
                       /\ call.settled.kind = "return"
                       /\ call.settled.value.value = call.produced.value.value
                       /\ call.settled.value.error = call.produced.value.error

\* a query resolved to the Success carrying the user GetUserHandler returned
C2_Witness ==
    \E c \in Called :
        /\ calls[c].message.kind = "query"
        /\ calls[c].entries = {HandlerObject("GetUserHandler")}
        /\ calls[c].state = "resolved"
        /\ calls[c].settled = Return(success(TestUser))

\* C3: a dispatch of a command whose type name resolves to T while the
\* command registry has no entry for T resolves to a Failure whose message is "No handler for
\* command: " followed by T, and invokes no handler.
C3_NoCommandHandler ==
    \A c \in Called :
        LET call == calls[c]
        IN (call.message.kind = "command" /\ call.message.ctor # Throws
                /\ call.entries = {}) =>
              /\ call.state = "resolved"
              /\ call.settled.kind = "return"
              /\ call.settled.value.error.type = "Error"
              /\ call.settled.value.error.message
                    = "No handler for command: " \o call.message.ctor
              /\ call.settled.value.value = Undefined
              /\ call.handler = Undefined
              /\ call.invoked = <<>>

\* a command named T was dispatched while only the query registry held T
C3_Witness ==
    \E c \in Called :
        /\ calls[c].message.kind = "command"
        /\ calls[c].entries = {}
        /\ calls[c].state = "resolved"
        /\ MapHas(queryHandlers, calls[c].message.ctor)
        /\ ~MapHas(commandHandlers, calls[c].message.ctor)

\* C4: a dispatch of a query named T while the query registry has no entry
\* for T resolves to a Failure whose message is "No handler for query: "
\* followed by T, and invokes no handler.
C4_NoQueryHandler ==
    \A c \in Called :
        LET call == calls[c]
        IN (call.message.kind = "query" /\ call.entries = {}) =>
              /\ call.state = "resolved"
              /\ call.settled.kind = "return"
              /\ call.settled.value.error.type = "Error"
              /\ call.settled.value.error.message
                    = "No handler for query: " \o call.message.ctor
              /\ call.settled.value.value = Undefined
              /\ call.handler = Undefined
              /\ call.invoked = <<>>

\* a query named T was dispatched while only the command registry held T
C4_Witness ==
    \E c \in Called :
        /\ calls[c].message.kind = "query"
        /\ calls[c].entries = {}
        /\ calls[c].state = "resolved"
        /\ MapHas(commandHandlers, calls[c].message.ctor)
        /\ ~MapHas(queryHandlers, calls[c].message.ctor)

\* C5: a dispatch of a request whose kind, once read, is neither "command"
\* nor "query" resolves to a Failure with message "Invalid message type: neither Command
\* nor Query" and invokes no handler, whatever the registries hold.
C5_InvalidKind ==
    \A c \in Called :
        LET call == calls[c]
        IN (call.message.kind \notin {"command", "query", Throws}) =>
              /\ call.state = "resolved"
              /\ call.settled.kind = "return"
              /\ call.settled.value.error.type = "Error"
              /\ call.settled.value.error.message
                    = "Invalid message type: neither Command nor Query"
              /\ call.settled.value.value = Undefined
              /\ call.handler = Undefined
              /\ call.invoked = <<>>

\* a request of invalid kind was dispatched while both registries held a
\* handler under its type name (the other caller's dispatches reached them)
C5_Witness ==
    \E c \in Called :
        /\ calls[c].message.kind = "invalid"
        /\ calls[c].state = "resolved"
        /\ calls[c].message.ctor \in TypeNames
        /\ lastRegistered["command"][calls[c].message.ctor] # Undefined
        /\ lastRegistered["query"][calls[c].message.ctor] # Undefined
        /\ \E o \in Called : calls[o].handler # Undefined

\* C6: a registration for a name replaces the earlier one: each registry
\* holds at most one entry per name, that entry is the handler of the last
\* register call for the name, and every dispatch invokes only the handler
\* of the last register call made before it, never an earlier one.
C6_Overwrite ==
    /\ \A kind \in {"command", "query"} : \A t \in TypeNames :
          /\ Cardinality({e \in Registry(kind) : e.key = t}) <= 1
          /\ MapGet(Registry(kind), t) = lastRegistered[kind][t]
    /\ \A c \in Called :
          LET call == calls[c]
          IN (call.message.kind \in {"command", "query"}
                  /\ call.latest # Undefined) =>
                /\ call.handler = call.latest
                /\ call.invoked = <<call.latest>>

\* one caller's dispatch for T reached H1; then H2, a different handler, was
\* registered under T and the other caller's dispatch for T reached H2 only
C6_Witness ==
    \E c \in Called, o \in Called :
        /\ calls[c].message.kind = calls[o].message.kind
        /\ calls[c].message.ctor = calls[o].message.ctor
        /\ calls[c].message.kind \in {"command", "query"}
        /\ calls[o].handler # Undefined
        /\ calls[c].handler # Undefined
        /\ calls[o].handler # calls[c].handler
        /\ calls[c].invoked = <<calls[c].handler>>
        /\ calls[c].handler
              = MapGet(Registry(calls[c].message.kind), calls[c].message.ctor)
        /\ Settled(calls[c])

\* C7: map on a Failure is a no-op: after any number of map calls on an
\* outcome built by failure(e), the outcome held is a Failure carrying the
\* identical error object e, every such map call returned, and no transform
\* was ever invoked.
C7_MapFailure ==
    (origin # Undefined /\ origin.built = "failure") =>
        /\ fnCalls = <<>>
        /\ res.error = origin.arg
        /\ res.value = Undefined
        /\ (last # Undefined /\ last.op = "map") =>
              /\ last.completion.kind = "return"
              /\ last.completion.value.error = origin.arg
              /\ Len(applied) >= 1

\* two map calls were made on an outcome built by failure(e)
C7_Witness ==
    /\ origin # Undefined
    /\ origin.built = "failure"
    /\ Len(applied) = 2
    /\ last.op = "map"

\* C8: map on Success composes: when success(v).map(f).map(g) returns, the
\* outcome is the Success holding g(f(v)), for every v including undefined.
C8_MapCompose ==
    (origin # Undefined /\ origin.built = "success" /\ Len(applied) = 2) =>
        LET f == applied[1]
            g == applied[2]
            fv == CallFn(f, origin.arg)
            gfv == CallFn(g, fv.value)
        IN /\ fv.kind = "return"
           /\ gfv.kind = "return"
           /\ res.value = gfv.value
           /\ res.error = Undefined
           /\ res = success(gfv.value)

\* success(undefined).map(f).map(g) returned with f yielding undefined too
C8_Witness ==
    /\ origin # Undefined
    /\ origin.built = "success"
    /\ origin.arg = Undefined
    /\ applied = <<"void", "typeof">>
    /\ res.value = Str("undefined")

\* C9: unwrap() on success(v) returns v; unwrap() on failure(e) throws
\* exactly e and returns nothing.
C9_Unwrap ==
    (last # Undefined /\ last.op = "unwrap" /\ last.after = <<>>) =>
        /\ origin.built = "success" => last.completion = Return(origin.arg)
        /\ origin.built = "failure" => last.completion = Throw(origin.arg)

\* unwrap() was called on an outcome built by failure(e) and threw
C9_Witness ==
    /\ last # Undefined
    /\ last.op = "unwrap"
    /\ last.after = <<>>
    /\ origin.built = "failure"
    /\ last.completion.kind = "throw"

\* C10: isSuccess() returns true on every outcome built by success(v), also
\* for v undefined, and false on every outcome built by failure(e); an
\* outcome is a Success (no error held) iff it was built as one.
C10_IsSuccess ==
    origin # Undefined =>
        /\ (last # Undefined /\ last.op = "isSuccess") =>
              last.completion = Return(Bool(origin.built = "success"))
        /\ (res.error = Undefined) <=> (origin.built = "success")
        /\ origin.built \in {"success", "failure"}

\* isSuccess() was called on success(undefined)
C10_Witness ==
    /\ origin = [built |-> "success", arg |-> Undefined]
    /\ last # Undefined
    /\ last.op = "isSuccess"
    /\ last.after = <<>>
    /\ last.completion = Return(Bool(TRUE))

\* C11: the dispatcher's own error conditions are returned as Failure
\* outcomes and never raised: whatever value is passed to dispatch, also a
\* malformed or foreign one, a dispatch that invokes no handler resolves to
\* a Failure; it never rejects while classifying the request and resolving
\* its type name.
C11_NeverRaises ==
    \A c \in Called :
        LET call == calls[c]
        IN call.invoked = <<>> =>
              /\ call.state = "resolved"
              /\ call.settled.kind = "return"
              /\ call.settled.value.error.type = "Error"

\* C12: dispatch installs no safety net around the handler: when the
\* handle call of a dispatch throws (its promise rejects), the dispatch
\* rejects with that same exception and is never resolved to a Failure.
C12_HandlerThrowPropagates ==
    \A c \in Called :
        LET call == calls[c]
        IN (call.handler # Undefined /\ call.produced.kind = "throw") =>
              /\ call.state \in {"handled", "rejected"}
              /\ call.state = "rejected" =>
                    call.settled = Throw(call.produced.value)
              /\ call.state = "handled" => call.settled = Pending

\* a command was dispatched to GetUserHandler, whose handle throws a
\* TypeError on it, and the dispatch rejected with that TypeError
C12_Witness ==
    \E c \in Called :
        /\ calls[c].message.kind = "command"
        /\ calls[c].handler = HandlerObject("GetUserHandler")
        /\ calls[c].produced = Throw(TypeError("handle"))
        /\ calls[c].state = "rejected"
        /\ calls[c].settled = Throw(TypeError("handle"))

\* C13: dispatch does not serialize or queue: while another dispatch has its
\* handler pending, a caller can make any dispatch call (which invokes its
\* handler at once), a pending handler can settle and a dispatch whose
\* handler settled can complete; and each dispatch settles with what its own
\* handler invocation produced for its own request.
C13_NoSerialization ==
    \A c \in Callers :
        /\ (\E o \in Callers \ {c} : calls[o].state = "pending") =>
              /\ calls[c].state \in {"idle", "resolved", "rejected"} =>
                    \A m \in Messages : ENABLED Dispatch(c, m)
              /\ calls[c].state = "pending" => ENABLED HandlerSettles(c)
              /\ calls[c].state = "handled" => ENABLED DispatchSettles(c)
        /\ (calls[c].state # "idle" /\ calls[c].handler # Undefined) =>
              /\ calls[c].invoked = <<calls[c].handler>>
              /\ calls[c].state # "pending" =>
                    calls[c].produced
                       = handle(calls[c].handler, calls[c].message)
              /\ Settled(calls[c]) => calls[c].settled = calls[c].produced

\* two dispatches of different requests overlap: the handler of one is
\* still pending while the handler of the other has already settled
C13_Witness ==
    \E c \in Called, o \in Called :
        /\ calls[c].state = "pending"
        /\ calls[o].state = "handled"
        /\ calls[c].message # calls[o].message
        /\ calls[c].handler # calls[o].handler
        /\ calls[o].produced = handle(calls[o].handler, calls[o].message)

\* C14: there is no timeout or cancellation: a dispatch whose handler is
\* pending stays exactly as it is until that handler's promise settles, and
\* once the handler has settled the dispatch eventually settles with what
\* the handler produced.
C14_NoTimeout ==
    /\ [][\A c \in Callers :
            calls[c].state = "pending" =>
               \/ calls'[c] = calls[c]
               \/ /\ calls'[c].state = "handled"
                  /\ calls'[c].produced
                        = handle(calls[c].handler, calls[c].message)
                  /\ calls'[c].settled = Pending]_vars
    /\ \A c \in Callers :
          (calls[c].state = "handled")
             ~> (Settled(calls[c]) /\ calls[c].settled = calls[c].produced)

\* one dispatch is still pending on its handler while another, made to a
\* handler as well, has resolved with what that handler produced
C14_Witness ==
    \E c \in Called, o \in Called :
        /\ calls[o].state = "pending"
        /\ calls[o].settled = Pending
        /\ calls[c].state = "resolved"
        /\ calls[c].handler # Undefined
        /\ calls[c].settled = calls[c].produced

\* the other of the two request kinds that have a registry
OtherKind(kind) == IF kind = "command" THEN "query" ELSE "command"

\* C15: the two registries are independent: a dispatch of kind K named T
\* invokes only the handler registered for T by the register operation of
\* K; when none was, it invokes nothing and yields the "No handler for K"
\* Failure, whatever the other registry holds under T; and a step that
\* registers in one registry leaves the other registry unchanged.
C15_Independent ==
    /\ [](\A c \in Called :
            LET call == calls[c]
                K == call.message.kind
            IN (K \in {"command", "query"} /\ call.message.ctor # Throws) =>
                  /\ call.latest # Undefined => call.invoked = <<call.latest>>
                  /\ call.latest = Undefined =>
                        /\ call.invoked = <<>>
                        /\ call.state = "resolved"
                        /\ call.settled.value.error.message
                              = "No handler for " \o K \o ": "
                                   \o call.message.ctor)
    /\ [][/\ (queryHandlers' # queryHandlers
                \/ lastRegistered'["query"] # lastRegistered["query"])
               => commandHandlers' = commandHandlers
          /\ (commandHandlers' # commandHandlers
                \/ lastRegistered'["command"] # lastRegistered["command"])
               => queryHandlers' = queryHandlers]_vars

\* a handler is registered under T in one registry only: a request of the
\* other kind named T got the "No handler" Failure, and a request of the
\* registry's kind named T reached the handler
C15_Witness ==
    \E c \in Called, o \in Called :
        /\ calls[c].message.kind \in {"command", "query"}
        /\ calls[c].message.ctor \in TypeNames
        /\ calls[o].message.kind = OtherKind(calls[c].message.kind)
        /\ calls[o].message.ctor = calls[c].message.ctor
        /\ calls[c].invoked = <<>>
        /\ calls[c].state = "resolved"
        /\ calls[o].invoked # <<>>
        /\ lastRegistered[calls[c].message.kind][calls[c].message.ctor]
              = Undefined
        /\ lastRegistered[calls[o].message.kind][calls[o].message.ctor]
              = calls[o].handler

\* the entries of Map m under the keys other than k
EntriesExcept(m, k) == {e \in m : e.key # k}

\* C16: a step of a dispatch (the call, the handler's completion, the
\* completion of the dispatch) leaves both registries as they were; a
\* register step changes, in its own registry only, nothing but the entry of
\* one name and touches no dispatch; so each registry always holds exactly
\* what the register operations put there.
C16_RegistriesFramed ==
    /\ [][/\ calls' # calls =>
                /\ commandHandlers' = commandHandlers
                /\ queryHandlers' = queryHandlers
                /\ lastRegistered' = lastRegistered
          /\ commandHandlers' # commandHandlers =>
                /\ calls' = calls
                /\ \E t \in TypeNames :
                      EntriesExcept(commandHandlers', t)
                         = EntriesExcept(commandHandlers, t)
          /\ queryHandlers' # queryHandlers =>
                /\ calls' = calls
                /\ \E t \in TypeNames :
                      EntriesExcept(queryHandlers', t)
                         = EntriesExcept(queryHandlers, t)]_vars
    /\ [](\A K \in {"command", "query"}, t \in TypeNames :
             MapGet(Registry(K), t) = lastRegistered[K][t])

\* one registry holds different handlers under two names, and a dispatch
\* that found one of them has completed with the entry still in place
C16_Witness ==
    \E c \in Called :
        LET call == calls[c]
        IN /\ call.handler # Undefined
           /\ Settled(call)
           /\ MapGet(Registry(call.message.kind), call.message.ctor)
                 = call.handler
           /\ \E t \in TypeNames \ {call.message.ctor} :
                 /\ MapHas(Registry(call.message.kind), t)
                 /\ MapGet(Registry(call.message.kind), t) # call.handler

\* a dispatch that has invoked a handler and has not completed
InFlight(call) == call.state \in {"pending", "handled"}

\* C17: the handler of a dispatch is the one registered last for its name
\* when dispatch was called; it is invoked exactly once, and the dispatch
\* completes with that handler's outcome; while the dispatch is in flight no
\* step, a registration for its name included, changes its request, its
\* handler or its invocations.
C17_HandlerFixedAtCall ==
    /\ [](\A c \in Called :
            LET call == calls[c]
            IN call.handler # Undefined =>
                  /\ call.handler = call.latest
                  /\ call.invoked = <<call.latest>>
                  /\ call.state # "pending" =>
                        call.produced = handle(call.latest, call.message)
                  /\ Settled(call) =>
                        call.settled = handle(call.latest, call.message))
    /\ [][\A c \in Callers :
             InFlight(calls[c]) =>
                /\ calls'[c].message = calls[c].message
                /\ calls'[c].handler = calls[c].handler
                /\ calls'[c].invoked = calls[c].invoked
                /\ calls'[c].latest = calls[c].latest
                /\ lastRegistered' # lastRegistered => calls'[c] = calls[c]]_vars

\* the handler for T was replaced while a dispatch for T was in flight: that
\* dispatch has the outcome of the handler it was called with, which is not
\* the outcome of the new handler, and a dispatch of the same request called
\* after the registration has invoked the new handler
C17_Witness ==
    \E c \in Called, o \in Called :
        LET call == calls[c]
            now == MapGet(Registry(call.message.kind), call.message.ctor)
        IN /\ call.state = "handled"
           /\ now # Undefined
           /\ now # call.handler
           /\ call.invoked = <<call.handler>>
           /\ call.produced = handle(call.handler, call.message)
           /\ call.produced # handle(now, call.message)
           /\ calls[o].message = call.message
           /\ calls[o].invoked = <<now>>

TypeOK ==
    /\ \A c \in Callers :
          calls[c].state \in {"idle", "pending", "handled", "resolved",
                              "rejected"}
    /\ nOps \in 0..MaxOps
====
